---- MODULE Spec2Model ----
(***************************************************************************)
(* Explicit-stack backtracking Sudoku solver (pauldepstein/Sudoku).        *)
(*                                                                         *)
(* Two programs share one search engine:                                   *)
(*   Simplified.cpp                  - the minimal variant                 *)
(*   SudokuSolverWithHardestEver.cpp - the diagnostic variant, which adds  *)
(*       input validation (checkUserGrid) and runtime_error checks.        *)
(* EPI_Simplified.cpp is the recursive solver they are derived from; it    *)
(* is modelled as the pure function SolvePartialSudoku.                    *)
(*                                                                         *)
(* Vectors indexed from 0 in the source (the grid and its rows) are        *)
(* functions on 0..k-1; containers that are only appended to, searched and *)
(* erased from (choices, the occurrence columns, the blank list, the       *)
(* stack) are sequences.  A pair (first, second) is the tuple <<i, j>>.    *)
(* stackData.index keeps the source's 0-based value.                       *)
(*                                                                         *)
(* A local the code computes once and then reads several times is bound    *)
(* through a one-element set: CHOOSE y \in {F(v) : v \in {e}} : TRUE is     *)
(* F(e) with e evaluated once, and \E v \in {e} : A(v) is A(e) likewise.    *)
(***************************************************************************)
EXTENDS Integers, Sequences, FiniteSets, TLC

VARIABLES
    program,          \* which main() runs: "Simplified" or "Diagnostic"
    pc,               \* position of main()/backtrack()
    caller,           \* which call of backtrack is running: "stored" or "user"
    input,            \* the grid as it was handed to backtrack (ghost copy)
    grid,             \* the grid, mutated in place by the search
    blanksInProcess,  \* std::list of the coordinates still blank
    recordsEachDigit, \* digit -> vector of the coordinates holding it
    blankStack,       \* std::stack<stackData>, top = last element
    fullStackSize,    \* number of blanks of the input grid
    result,           \* value returned by backtrack (<<>> = empty vector)
    lastOp,           \* ghost: what the last loop iteration did
    maxDepth,         \* ghost: the largest stack size this call of backtrack reached
    err,              \* "none", or the runtime_error / undefined behaviour hit
    vgrid,            \* validator harness: the grid under test
    verdicts          \* validator harness: verdicts of successive calls

vars == <<program, pc, caller, input, grid, blanksInProcess, recordsEachDigit,
          blankStack, fullStackSize, result, lastOp, maxDepth, err, vgrid, verdicts>>

(***************************************************************************)
(* Parameters and bounds                                                   *)
(***************************************************************************)
\* backtrack's subgridSize parameter; the model runs the 4 x 4 instance.
subgridSize == 2

\* grid side (gridSize of checkUserGrid, gridLength of getGrid)
gridSize == subgridSize * subgridSize

\* at most this many cells of an input grid are filled in
MaxGivens == 4

\* at most this many cells of a grid handed to the validator harness are non-zero
MaxEntries == 3

\* the cells of an input grid that may be filled in: they contain a pair in
\* one row (different boxes), a pair in one column, and a pair that shares
\* only a box
GivenCells == {<<0, 3>>, <<1, 1>>, <<1, 2>>, <<3, 0>>, <<3, 3>>}

Digits == 1 .. gridSize

\* values std::cin may deliver for a cell: in range, below and above
UserValues == -1 .. gridSize + 1

Cells == (0 .. gridSize - 1) \X (0 .. gridSize - 1)

\* the empty vector returned for "no solution"
EmptyGrid == <<>>

\* v.size() of a vector modelled as a function on 0..k-1
size(v) == Cardinality(DOMAIN v)

\* the square grid holding f on GivenCells and 0 elsewhere
GridOf(f) ==
    [i \in 0 .. gridSize - 1 |->
        [j \in 0 .. gridSize - 1 |->
            IF <<i, j>> \in GivenCells THEN f[<<i, j>>] ELSE 0]]

NonZero(f) == Cardinality({c \in DOMAIN f : f[c] # 0})

\* sparse grids: at most MaxGivens values on GivenCells
SparseGrids(values) ==
    {GridOf(f) : f \in {h \in [GivenCells -> values] : NonZero(h) <= MaxGivens}}

\* a completed legal grid, and the cells the dense fixtures derive from it
SolvedGrid ==
    [i \in 0 .. gridSize - 1 |->
        [j \in 0 .. gridSize - 1 |->
            <<<<1, 2, 3, 4>>, <<3, 4, 1, 2>>, <<2, 1, 4, 3>>, <<4, 3, 2, 1>>>>[i + 1][j + 1]]]

DenseCells == {<<0, 0>>, <<2, 1>>, <<2, 2>>, <<3, 3>>}

AlteredCell == <<0, 1>>

\* dense grids: the solved grid with some of DenseCells blanked and the
\* altered cell holding v ("wrongly filling in" one square, as createTestGrid's
\* comment describes the no-solution fixture)
DenseGrids(values) ==
    {[i \in 0 .. gridSize - 1 |->
        [j \in 0 .. gridSize - 1 |->
            IF <<i, j>> \in S THEN 0
            ELSE IF <<i, j>> = AlteredCell THEN v
            ELSE SolvedGrid[i][j]]] : S \in SUBSET DenseCells, v \in values \ {0}}

\* well-formed grids (any legality) that the fixtures stand for
InputGrids == SparseGrids(0 .. gridSize) \cup DenseGrids(0 .. gridSize)

\* what getGrid can return: gridLength rows of gridLength ints
UserGrids == SparseGrids(UserValues) \cup DenseGrids(UserValues)

(***************************************************************************)
(* Validation (diagnostic variant)                                         *)
(***************************************************************************)
checkFormat(g, gSize) ==
    /\ size(g) = gSize
    /\ \A i \in 0 .. gSize - 1 :
          /\ size(g[i]) = gSize
          /\ \A j \in 0 .. gSize - 1 : ~(g[i][j] < 0 \/ g[i][j] > gSize)

checkIndex(index, g) == ~(index < 0 \/ index >= size(g))

checkPair(coordinate, g) == checkIndex(coordinate[1], g) /\ checkIndex(coordinate[2], g)

checkHorizontal(i, j, g) ==
    IF ~checkPair(<<i, j>>, g) THEN FALSE
    ELSE IF g[i][j] # 0
         THEN \A J \in 0 .. size(g) - 1 : ~(j # J /\ g[i][J] = g[i][j])
         ELSE TRUE

checkVertical(i, j, g) ==
    IF ~checkPair(<<i, j>>, g) THEN FALSE
    ELSE IF g[i][j] # 0
         THEN \A I \in 0 .. size(g) - 1 : ~(i # I /\ g[i][j] = g[I][j])
         ELSE TRUE

checkSubgrid(i, j, g, s) ==
    IF ~checkPair(<<i, j>>, g) THEN FALSE
    ELSE LET startI == i - (i % s)
             endI == startI + s
             startJ == j - (j % s)
             endJ == startJ + s
         IN IF g[i][j] # 0
            THEN \A I \in startI .. endI - 1 : \A J \in startJ .. endJ - 1 :
                    ~(i # I /\ j # J /\ g[i][j] = g[I][J])
            ELSE TRUE

\* checkLegal(i, j, grid) without its checkSubgrid call
checkLegalAtNoSubgrid(i, j, g, s) == checkHorizontal(i, j, g) /\ checkVertical(i, j, g)

checkLegalAt(i, j, g, s) ==
    checkHorizontal(i, j, g) /\ checkVertical(i, j, g) /\ checkSubgrid(i, j, g, s)

checkLegal(g, s) ==
    \A i \in 0 .. size(g) - 1 : \A j \in 0 .. size(g) - 1 : checkLegalAt(i, j, g, s)

checkUserGrid(g, gSize, s) == checkFormat(g, gSize) /\ checkLegal(g, s)

(***************************************************************************)
(* Occurrence index and consistency                                        *)
(***************************************************************************)
\* sameSubgrid with % for /
sameSubgridModulo(lhs, rhs, s) ==
    lhs[1] % s = rhs[1] % s /\ lhs[2] % s = rhs[2] % s

sameSubgrid(lhs, rhs, s) ==
    lhs[1] \div s = rhs[1] \div s /\ lhs[2] \div s = rhs[2] \div s

\* consistent(lhs, rhs) without the column test
consistentPairNoColumn(lhs, rhs, s) ==
    lhs = rhs \/ (lhs[1] # rhs[1] /\ ~sameSubgrid(lhs, rhs, s))

\* consistent(lhs, rhs) without the subgrid test
consistentPairNoSubgrid(lhs, rhs, s) ==
    lhs = rhs \/ (lhs[1] # rhs[1] /\ lhs[2] # rhs[2])

consistentPair(lhs, rhs, s) ==
    lhs = rhs \/ (lhs[1] # rhs[1] /\ lhs[2] # rhs[2] /\ ~sameSubgrid(lhs, rhs, s))

\* record[digit] of the unordered_map: a missing key reads as an empty vector
columnOf(record, digit) == IF digit \in DOMAIN record THEN record[digit] ELSE <<>>

consistent(digit, location, g, record, s) ==
    LET column == columnOf(record, digit)
    IN \A i \in 1 .. Len(column) : consistentPair(location, column[i], s)

RECURSIVE scanBlanks(_, _, _)
scanBlanks(g, i, j) ==
    IF i >= size(g) THEN <<>>
    ELSE IF j >= size(g[i]) THEN scanBlanks(g, i + 1, 0)
    ELSE (IF g[i][j] = 0 THEN <<(<<i, j>>)>> ELSE <<>>) \o scanBlanks(g, i, j + 1)

blankSquares(g) == scanBlanks(g, 0, 0)

RECURSIVE scanOccurrences(_, _, _, _)
scanOccurrences(g, i, j, digit) ==
    IF i >= size(g) THEN <<>>
    ELSE IF j >= size(g[i]) THEN scanOccurrences(g, i + 1, 0, digit)
    ELSE (IF g[i][j] = digit THEN <<(<<i, j>>)>> ELSE <<>>)
            \o scanOccurrences(g, i, j + 1, digit)

\* the keys are the digits 1..N and whatever other non-zero value the grid holds
occurrences(g) ==
    [digit \in Digits \cup (UNION {{g[i][j] : j \in DOMAIN g[i]} : i \in DOMAIN g} \ {0})
        |-> scanOccurrences(g, 0, 0, digit)]

\* record[digit].push_back(location)
recordPush(record, digit, location) ==
    IF digit \in DOMAIN record
    THEN [record EXCEPT ![digit] = Append(@, location)]
    ELSE record @@ (digit :> <<location>>)

\* std::find: position of the first element equal to x, 0 for end()
RECURSIVE findFrom(_, _, _)
findFrom(column, x, i) ==
    IF i > Len(column) THEN 0
    ELSE IF column[i] = x THEN i
    ELSE findFrom(column, x, i + 1)

\* std::find started one past begin()
findSkipsFirst(column, x) == findFrom(column, x, 2)

find(column, x) == findFrom(column, x, 1)

\* erase of the element after the one the iterator points to
eraseNext(column, i) ==
    IF i < Len(column)
    THEN SubSeq(column, 1, i) \o SubSeq(column, i + 2, Len(column))
    ELSE SubSeq(column, 1, i - 1)

\* vector::erase / list::erase of the element at position i (1 <= i <= Len)
erase(column, i) == SubSeq(column, 1, i - 1) \o SubSeq(column, i + 1, Len(column))

(***************************************************************************)
(* options and min                                                         *)
(***************************************************************************)
\* options without the final reset of the probed cell
optionsNoReset(diag, location, g, record, s) ==
    IF diag /\ ~checkPair(location, g)
    THEN [result |-> <<>>, grid |-> g]
    ELSE [result |-> SelectSeq([d \in 1 .. size(g) |-> d],
                               LAMBDA val : consistent(val, location, g, record, s)),
          grid |-> [g EXCEPT ![location[1]][location[2]] = size(g)]]

\* options probing attemptDigit instead of attemptDigit + 1
optionsFromZero(diag, location, g, record, s) ==
    IF diag /\ ~checkPair(location, g)
    THEN [result |-> <<>>, grid |-> g]
    ELSE [result |-> SelectSeq([d \in 1 .. size(g) |-> d - 1],
                               LAMBDA val : consistent(val, location, g, record, s)),
          grid |-> [g EXCEPT ![location[1]][location[2]] = 0]]

\* The digits legal at location, ascending, and the grid as options leaves it
\* (the probed cell is reset to 0).  diag: the variant with checkPair.
options(diag, location, g, record, s) ==
    IF diag /\ ~checkPair(location, g)
    THEN [result |-> <<>>, grid |-> g]
    ELSE [result |-> SelectSeq([d \in 1 .. size(g) |-> d],
                               LAMBDA val : consistent(val, location, g, record, s)),
          grid |-> [g EXCEPT ![location[1]][location[2]] = 0]]

\* The for loop of min with successfulDigits <= threshold
RECURSIVE countDigitsPastThreshold(_, _, _, _, _, _, _, _)
countDigitsPastThreshold(attemptedDigit, successfulDigits, probes, threshold, location, g, record, s) ==
    IF attemptedDigit <= size(g) /\ successfulDigits <= threshold
    THEN CHOOSE c \in {countDigitsPastThreshold(attemptedDigit + 1, n, probes + 1,
                                                threshold, location, g, record, s) :
                          n \in {IF consistent(attemptedDigit, location, g, record, s)
                                 THEN successfulDigits + 1
                                 ELSE successfulDigits}} : TRUE
    ELSE [successfulDigits |-> successfulDigits, probes |-> probes]

\* The for loop of min: counts legal digits but stops at threshold.
RECURSIVE countDigits(_, _, _, _, _, _, _, _)
countDigits(attemptedDigit, successfulDigits, probes, threshold, location, g, record, s) ==
    IF attemptedDigit <= size(g) /\ successfulDigits < threshold
    THEN CHOOSE c \in {countDigits(attemptedDigit + 1, n, probes + 1, threshold,
                                    location, g, record, s) :
                          n \in {IF consistent(attemptedDigit, location, g, record, s)
                                 THEN successfulDigits + 1
                                 ELSE successfulDigits}} : TRUE
    ELSE [successfulDigits |-> successfulDigits, probes |-> probes]

\* the else branch lowering the threshold without moving currentMin
minOtherKeepsFirst(iter, threshold, currentMin, c) ==
    IF c.successfulDigits < threshold
    THEN [threshold |-> c.successfulDigits, currentMin |-> currentMin, probes |-> c.probes]
    ELSE [threshold |-> threshold, currentMin |-> currentMin, probes |-> c.probes]

\* the else branch with <= for <: a later blank with the same count wins
minOtherTakesLater(iter, threshold, currentMin, c) ==
    IF c.successfulDigits <= threshold
    THEN [threshold |-> c.successfulDigits, currentMin |-> iter, probes |-> c.probes]
    ELSE [threshold |-> threshold, currentMin |-> currentMin, probes |-> c.probes]

\* the else branch moving currentMin without lowering the threshold
minOtherKeepsThreshold(iter, threshold, currentMin, c) ==
    IF c.successfulDigits < threshold
    THEN [threshold |-> threshold, currentMin |-> iter, probes |-> c.probes]
    ELSE [threshold |-> threshold, currentMin |-> currentMin, probes |-> c.probes]

\* The else branch of min's loop body for the blank at iter, given the count
\* c its for loop produced: the new threshold and currentMin.
minOther(iter, threshold, currentMin, c) ==
    IF c.successfulDigits < threshold
    THEN [threshold |-> c.successfulDigits, currentMin |-> iter, probes |-> c.probes]
    ELSE [threshold |-> threshold, currentMin |-> currentMin, probes |-> c.probes]

\* The begin() branch of min's loop body, given o = options(*iter): the full
\* count becomes the threshold.
minFirst(diag, currentMin, location, g, o) ==
    [threshold |-> Len(o.result), currentMin |-> currentMin,
     probes |-> IF diag /\ ~checkPair(location, g) THEN 0 ELSE size(g),
     grid |-> o.grid]

\* One pass of min's loop body: the first blank gets a full options() count,
\* the others the bounded count.  Yields threshold, currentMin, probes, grid.
minBody(diag, iter, threshold, currentMin, g, blanks, record, s) ==
    IF iter = 1
    THEN CHOOSE b \in {minFirst(diag, currentMin, blanks[iter], g, o) :
                          o \in {options(diag, blanks[iter], g, record, s)}} : TRUE
    ELSE CHOOSE b \in {[grid |-> g] @@ minOther(iter, threshold, currentMin, c) :
                          c \in {countDigits(1, 0, 0, threshold, blanks[iter],
                                              g, record, s)}} : TRUE

\* The while loop of min.  iter and currentMin are positions in blanks
\* (1 = begin(), Len + 1 = end()); probes lists the consistent() calls made
\* for each blank scanned and thresholds the threshold each was scanned under.
RECURSIVE minLoop(_, _, _, _, _, _, _, _, _, _)
minStep(diag, iter, threshold, probes, thresholds, blanks, record, s, b) ==
    minLoop(diag, iter + 1, b.threshold, b.currentMin, Append(probes, b.probes),
            Append(thresholds, threshold), b.grid, blanks, record, s)

minLoop(diag, iter, threshold, currentMin, probes, thresholds, g, blanks, record, s) ==
    IF iter # Len(blanks) + 1 /\ threshold # 0
    THEN CHOOSE m \in {minStep(diag, iter, threshold, probes, thresholds, blanks,
                                record, s, b) :
                          b \in {minBody(diag, iter, threshold, currentMin, g, blanks,
                                         record, s)}} : TRUE
    ELSE [currentMin |-> currentMin, nonEmpty |-> (threshold # 0), grid |-> g,
          threshold |-> threshold, probes |-> probes, thresholds |-> thresholds]

min(diag, g, blanks, record, s) ==
    minLoop(diag, 1, -1, 1, <<>>, <<>>, g, blanks, record, s)

(***************************************************************************)
(* The search engine.  An engine state st is a record                      *)
(*   [stack, blanks, record, grid, err]                                    *)
(* of the four containers the functions take by reference, and err:        *)
(* "none", "runtime_error: ..." (thrown by the diagnostic variant) or      *)
(* "UB: ..." (undefined behaviour of the minimal variant at the same       *)
(* place).  A function that hits an error returns the state at that point. *)
(***************************************************************************)
top(stack) == stack[Len(stack)]

fail(diag, st, what) ==
    [st EXCEPT !.err = (IF diag THEN "runtime_error: " ELSE "UB: ") \o what]

\* push writing the digit at the transposed square
pushChoicesTransposed(diag, st, currentMin, easiest, o) ==
    IF o.result = <<>>
    THEN [ok |-> FALSE,
          st |-> fail(diag, [st EXCEPT !.grid = o.grid], "choices empty while pushing")]
    ELSE [ok |-> TRUE,
          st |-> [stack  |-> Append(st.stack,
                                    [coordinates |-> easiest, choices |-> o.result,
                                     index |-> 0, revisited |-> FALSE]),
                  blanks |-> erase(st.blanks, currentMin),
                  record |-> recordPush(st.record, o.result[1], easiest),
                  grid   |-> [o.grid EXCEPT ![easiest[2]][easiest[1]] = o.result[1]],
                  err    |-> st.err]]

\* push without blanksInProcess.erase(easiest)
pushChoicesKeepsBlank(diag, st, currentMin, easiest, o) ==
    IF o.result = <<>>
    THEN [ok |-> FALSE,
          st |-> fail(diag, [st EXCEPT !.grid = o.grid], "choices empty while pushing")]
    ELSE [ok |-> TRUE,
          st |-> [stack  |-> Append(st.stack,
                                    [coordinates |-> easiest, choices |-> o.result,
                                     index |-> 0, revisited |-> FALSE]),
                  blanks |-> st.blanks,
                  record |-> recordPush(st.record, o.result[1], easiest),
                  grid   |-> [o.grid EXCEPT ![easiest[1]][easiest[2]] = o.result[1]],
                  err    |-> st.err]]

\* push with blanksInProcess.erase(blanksInProcess.begin())
pushChoicesErasesFirst(diag, st, currentMin, easiest, o) ==
    IF o.result = <<>>
    THEN [ok |-> FALSE,
          st |-> fail(diag, [st EXCEPT !.grid = o.grid], "choices empty while pushing")]
    ELSE [ok |-> TRUE,
          st |-> [stack  |-> Append(st.stack,
                                    [coordinates |-> easiest, choices |-> o.result,
                                     index |-> 0, revisited |-> FALSE]),
                  blanks |-> erase(st.blanks, 1),
                  record |-> recordPush(st.record, o.result[1], easiest),
                  grid   |-> [o.grid EXCEPT ![easiest[1]][easiest[2]] = o.result[1]],
                  err    |-> st.err]]

\* push, from the choices o = options(*easiest) on: commit choices[0]
pushChoices(diag, st, currentMin, easiest, o) ==
    IF o.result = <<>>
    THEN [ok |-> FALSE,
          st |-> fail(diag, [st EXCEPT !.grid = o.grid], "choices empty while pushing")]
    ELSE [ok |-> TRUE,
          st |-> [stack  |-> Append(st.stack,
                                    [coordinates |-> easiest, choices |-> o.result,
                                     index |-> 0, revisited |-> FALSE]),
                  blanks |-> erase(st.blanks, currentMin),
                  record |-> recordPush(st.record, o.result[1], easiest),
                  grid   |-> [o.grid EXCEPT ![easiest[1]][easiest[2]] = o.result[1]],
                  err    |-> st.err]]

\* push, from the result m of min on
pushMin(diag, st, s, m) ==
    IF ~m.nonEmpty
    THEN [ok |-> FALSE, st |-> [st EXCEPT !.grid = m.grid]]
    ELSE CHOOSE p \in {pushChoices(diag, st, m.currentMin, st.blanks[m.currentMin], o) :
                          o \in {options(diag, st.blanks[m.currentMin], m.grid,
                                         st.record, s)}} : TRUE

\* push: returns [ok, st]; ok is the bool the function returns
push(diag, st, s) ==
    IF st.blanks = <<>>
    THEN [ok |-> FALSE, st |-> fail(diag, st, "push with no blank squares")]
    ELSE CHOOSE p \in {pushMin(diag, st, s, m) :
                          m \in {min(diag, st.grid, st.blanks, st.record, s)}} : TRUE

\* pop that leaves the exposed frame's revisited flag alone
popNoRevisit(diag, st) ==
    IF st.stack = <<>>
    THEN fail(diag, st, "pop from an empty stack")
    ELSE
    LET coordinates == top(st.stack).coordinates
        choices == top(st.stack).choices
        column == columnOf(st.record, choices[Len(choices)])
        iter == find(column, coordinates)
        st1 == [stack  |-> SubSeq(st.stack, 1, Len(st.stack) - 1),
                blanks |-> Append(st.blanks, coordinates),
                record |-> st.record,
                grid   |-> [st.grid EXCEPT ![coordinates[1]][coordinates[2]] = 0],
                err    |-> st.err]
    IN IF choices = <<>> \/ iter = 0
       THEN fail(diag, st1, "popped coordinates not in the list")
       ELSE [st1 EXCEPT !.record[choices[Len(choices)]] = erase(column, iter)]

\* pop without the update of the records
popKeepsRecord(diag, st) ==
    IF st.stack = <<>> \/ top(st.stack).choices = <<>>
    THEN fail(diag, st, "pop from an empty stack")
    ELSE
    LET coordinates == top(st.stack).coordinates
        popped == SubSeq(st.stack, 1, Len(st.stack) - 1)
    IN [stack  |-> IF popped = <<>> THEN popped
                   ELSE [popped EXCEPT ![Len(popped)].revisited = TRUE],
        blanks |-> Append(st.blanks, coordinates),
        record |-> st.record,
        grid   |-> [st.grid EXCEPT ![coordinates[1]][coordinates[2]] = 0],
        err    |-> st.err]

\* pop that returns the coordinates to the front of the blank squares
popToFront(diag, st) ==
    IF st.stack = <<>> \/ top(st.stack).choices = <<>>
    THEN fail(diag, st, "pop from an empty stack")
    ELSE
    LET coordinates == top(st.stack).coordinates
        choices == top(st.stack).choices
        popped == SubSeq(st.stack, 1, Len(st.stack) - 1)
        column == columnOf(st.record, choices[Len(choices)])
    IN [stack  |-> IF popped = <<>> THEN popped
                   ELSE [popped EXCEPT ![Len(popped)].revisited = TRUE],
        blanks |-> <<coordinates>> \o st.blanks,
        record |-> [st.record EXCEPT ![choices[Len(choices)]] =
                       erase(column, find(column, coordinates))],
        grid   |-> [st.grid EXCEPT ![coordinates[1]][coordinates[2]] = 0],
        err    |-> st.err]

\* pop without grid[coordinates.first][coordinates.second] = 0
popKeepsDigit(diag, st) ==
    IF st.stack = <<>> \/ top(st.stack).choices = <<>>
    THEN fail(diag, st, "pop from an empty stack")
    ELSE
    LET coordinates == top(st.stack).coordinates
        choices == top(st.stack).choices
        popped == SubSeq(st.stack, 1, Len(st.stack) - 1)
        column == columnOf(st.record, choices[Len(choices)])
    IN [stack  |-> IF popped = <<>> THEN popped
                   ELSE [popped EXCEPT ![Len(popped)].revisited = TRUE],
        blanks |-> Append(st.blanks, coordinates),
        record |-> [st.record EXCEPT ![choices[Len(choices)]] =
                       erase(column, find(column, coordinates))],
        grid   |-> st.grid,
        err    |-> st.err]

\* pop
pop(diag, st) ==
    IF st.stack = <<>>
    THEN fail(diag, st, "pop from an empty stack")
    ELSE
    LET coordinates == top(st.stack).coordinates
        choices == top(st.stack).choices
    IN IF choices = <<>>
       THEN fail(diag, st, "choices empty while popping")
       ELSE
       LET popped == SubSeq(st.stack, 1, Len(st.stack) - 1)
           exposed == IF popped = <<>> THEN popped
                      ELSE [popped EXCEPT ![Len(popped)].revisited = TRUE]
           column == columnOf(st.record, choices[Len(choices)])
           iter == find(column, coordinates)
           st1 == [stack  |-> exposed,
                   blanks |-> Append(st.blanks, coordinates),
                   record |-> st.record,
                   grid   |-> [st.grid EXCEPT ![coordinates[1]][coordinates[2]] = 0],
                   err    |-> st.err]
       IN IF iter = 0
          THEN fail(diag, st1, "popped coordinates not in the list")
          ELSE [st1 EXCEPT !.record[choices[Len(choices)]] = erase(column, iter)]

\* tryToPush, from the result p of its push on: pop when the push failed
tryToPushAfter(diag, p) ==
    IF p.st.err # "none" THEN p.st
    ELSE IF ~p.ok THEN pop(diag, p.st)
    ELSE p.st

\* tryToPush
tryToPush(diag, st, s) ==
    CHOOSE a \in {tryToPushAfter(diag, p) : p \in {push(diag, st, s)}} : TRUE

\* increment(stack, record, grid) without column.erase(iter)
incrementTopKeepsOld(diag, st) ==
    IF st.stack = <<>> \/ top(st.stack).index + 1 >= Len(top(st.stack).choices)
    THEN fail(diag, st, "increment past the last choice")
    ELSE
    LET t == top(st.stack)
        location == t.coordinates
        newDigit == t.choices[(t.index + 1) + 1]
    IN [stack  |-> [st.stack EXCEPT ![Len(st.stack)].index = t.index + 1],
        blanks |-> st.blanks,
        record |-> recordPush(st.record, newDigit, location),
        grid   |-> [st.grid EXCEPT ![location[1]][location[2]] = newDigit],
        err    |-> st.err]

\* increment(stack, record, grid) with top.index++ for ++top.index: the digit
\* written is the choice the frame already held
incrementTopStale(diag, st) ==
    IF st.stack = <<>> \/ top(st.stack).index + 1 >= Len(top(st.stack).choices)
    THEN fail(diag, st, "increment past the last choice")
    ELSE
    LET t == top(st.stack)
    IN [st EXCEPT !.stack[Len(st.stack)].index = t.index + 1]

\* increment(stack, record, grid): advance the top frame to its next choice
incrementTop(diag, st) ==
    IF st.stack = <<>>
    THEN fail(diag, st, "increment on an empty stack")
    ELSE
    LET t == top(st.stack)
        index == t.index
        location == t.coordinates
        digit == st.grid[location[1]][location[2]]
        column == columnOf(st.record, digit)
        iter == find(column, location)
    IN IF index + 1 >= Len(t.choices)
       THEN fail(diag, st, "increment past the last choice")
       ELSE IF iter = 0
       THEN fail(diag, st, "digit to remove not in the records")
       ELSE
       LET newDigit == t.choices[(index + 1) + 1]
       IN [stack  |-> [st.stack EXCEPT ![Len(st.stack)].index = index + 1],
           blanks |-> st.blanks,
           record |-> recordPush([st.record EXCEPT ![digit] = erase(column, iter)],
                                 newDigit, location),
           grid   |-> [st.grid EXCEPT ![location[1]][location[2]] = newDigit],
           err    |-> st.err]

\* increment, from the state b its tryToPush left: restart an emptied stack
incrementRestart(diag, b, s) ==
    IF b.err # "none" THEN b
    ELSE IF b.stack = <<>> /\ b.blanks # <<>> THEN push(diag, b, s).st
    ELSE b

\* increment, from the state a its incrementTop left
incrementPush(diag, a, s) ==
    IF a.err # "none" THEN a
    ELSE CHOOSE r \in {incrementRestart(diag, b, s) :
                          b \in {tryToPush(diag, a, s)}} : TRUE

\* increment(stack, blanksInProcess, record, grid, subgridSize)
increment(diag, st, s) ==
    CHOOSE r \in {incrementPush(diag, a, s) : a \in {incrementTop(diag, st)}} : TRUE

(***************************************************************************)
(* The programs: main() of either file and the main loop of backtrack      *)
(***************************************************************************)
diagnostic == program = "Diagnostic"

\* the four containers backtrack works on, as an engine state
St == [stack |-> blankStack, blanks |-> blanksInProcess,
       record |-> recordsEachDigit, grid |-> grid, err |-> "none"]

\* What the build may leave behind after undefined behaviour in the minimal
\* variant: the state at that point, or one with a container clobbered.
UBOutcomes(st) ==
    {st,
     [st EXCEPT !.record = [d \in DOMAIN st.record |-> <<>>]],
     [st EXCEPT !.stack = <<>>],
     [st EXCEPT !.blanks = <<>>]}

\* Commit the engine state a step produced.  On a runtime_error the exception
\* leaves backtrack and is caught in main, which prints it and returns; on
\* undefined behaviour the run is lost.
Commit(st, op) ==
    IF st.err = "none"
    THEN /\ blankStack' = st.stack
         /\ blanksInProcess' = st.blanks
         /\ recordsEachDigit' = st.record
         /\ grid' = st.grid
         /\ err' = err
         /\ pc' = "loop"
         /\ lastOp' = op
         /\ maxDepth' = IF Len(st.stack) > maxDepth THEN Len(st.stack) ELSE maxDepth
    ELSE /\ \E out \in (IF diagnostic THEN {st} ELSE UBOutcomes(st)) :
              /\ blankStack' = out.stack
              /\ blanksInProcess' = out.blanks
              /\ recordsEachDigit' = out.record
              /\ grid' = out.grid
         /\ err' = st.err
         /\ pc' = IF diagnostic THEN "exit" ELSE "UB"
         /\ lastOp' = op
         /\ maxDepth' = maxDepth

NoBlanks == <<>>
NoStack == <<>>
NoRecord == [d \in Digits |-> <<>>]

Init ==
    /\ program \in {"Simplified", "Diagnostic"}
    /\ pc = "createTestGrid"
    /\ caller = "stored"
    /\ input = EmptyGrid
    /\ grid = EmptyGrid
    /\ blanksInProcess = NoBlanks
    /\ recordsEachDigit = NoRecord
    /\ blankStack = NoStack
    /\ fullStackSize = 0
    /\ result = EmptyGrid
    /\ lastOp = "none"
    /\ maxDepth = 0
    /\ err = "none"
    /\ vgrid = EmptyGrid
    /\ verdicts = <<>>

\* createTestGrid: the stored grid (any of the fixtures); the diagnostic
\* variant throws when checkUserGrid rejects it.
CreateTestGrid ==
    /\ pc = "createTestGrid"
    /\ \E g \in InputGrids :
          /\ grid' = g
          /\ IF diagnostic /\ ~checkUserGrid(g, gridSize, subgridSize)
             THEN /\ err' = "runtime_error: Grid seems to have been mistyped"
                  /\ pc' = "exit"
             ELSE /\ err' = err
                  /\ pc' = "backtrack"
    /\ caller' = "stored"
    /\ UNCHANGED <<program, input, blanksInProcess, recordsEachDigit, blankStack,
                   fullStackSize, result, lastOp, maxDepth, vgrid, verdicts>>

\* what a loop iteration did, told from the engine state r it produced
Outcome(name, r) ==
    IF r.err # "none" THEN name \o ":error"
    ELSE IF name = "pop" THEN name
    ELSE IF Len(r.stack) > Len(blankStack) THEN name \o ":pushed"
    ELSE IF Len(r.stack) < Len(blankStack) THEN name \o ":popped"
    ELSE name \o ":recovered"

Step(name, r) == Commit(r, Outcome(name, r))

\* the first push of backtrack; its bool is ignored
FirstPush(p) == Commit(p.st, IF p.st.err # "none" THEN "start:error"
                             ELSE IF p.ok THEN "start:pushed" ELSE "start:failed")

\* backtrack without "if(blanksInProcess.empty()) return grid;"
BacktrackStartNoEarlyReturn ==
    /\ pc = "backtrack"
    /\ input' = grid
    /\ fullStackSize' = Len(blankSquares(grid))
    /\ \E st \in {[stack |-> NoStack, blanks |-> blankSquares(grid),
                     record |-> occurrences(grid), grid |-> grid,
                     err |-> "none"]} :
          \E p \in {push(diagnostic, st, subgridSize)} : FirstPush(p)
    /\ result' = result
    /\ UNCHANGED <<program, caller, vgrid, verdicts>>

\* backtrack up to its main loop: collect the blanks and the occurrences,
\* return the grid at once when there is no blank, else try the first push.
BacktrackStart ==
    /\ pc = "backtrack"
    /\ input' = grid
    /\ fullStackSize' = Len(blankSquares(grid))
    /\ IF blankSquares(grid) = <<>>
       THEN /\ blankStack' = NoStack
            /\ blanksInProcess' = NoBlanks
            /\ recordsEachDigit' = occurrences(grid)
            /\ grid' = grid
            /\ result' = grid
            /\ pc' = "returned"
            /\ lastOp' = "start:noBlanks"
            /\ maxDepth' = maxDepth
            /\ err' = err
       ELSE /\ \E st \in {[stack |-> NoStack, blanks |-> blankSquares(grid),
                             record |-> occurrences(grid), grid |-> grid,
                             err |-> "none"]} :
                  \E p \in {push(diagnostic, st, subgridSize)} : FirstPush(p)
            /\ result' = result
    /\ UNCHANGED <<program, caller, vgrid, verdicts>>

\* the final return handing back the grid instead of {}
ReturnEmptyAsGrid ==
    /\ pc = "loop"
    /\ blankStack = <<>>
    /\ result' = grid
    /\ pc' = "returned"
    /\ lastOp' = "returnEmpty"
    /\ UNCHANGED <<program, caller, input, grid, blanksInProcess, recordsEachDigit,
                   blankStack, fullStackSize, maxDepth, err, vgrid, verdicts>>

\* while(!blankStack.empty()) fails: no solution, return {}
ReturnEmpty ==
    /\ pc = "loop"
    /\ blankStack = <<>>
    /\ result' = EmptyGrid
    /\ pc' = "returned"
    /\ lastOp' = "returnEmpty"
    /\ UNCHANGED <<program, caller, input, grid, blanksInProcess, recordsEachDigit,
                   blankStack, fullStackSize, maxDepth, err, vgrid, verdicts>>

\* the stack is full: return grid
ReturnSolved ==
    /\ pc = "loop"
    /\ blankStack # <<>>
    /\ Len(blankStack) = fullStackSize
    /\ result' = grid
    /\ pc' = "returned"
    /\ lastOp' = "returnSolved"
    /\ UNCHANGED <<program, caller, input, grid, blanksInProcess, recordsEachDigit,
                   blankStack, fullStackSize, maxDepth, err, vgrid, verdicts>>

\* the branch test with index + 2 for index + 1: the last choice is skipped
BranchSkipsLast ==
    LET topMember == top(blankStack)
    IN IF topMember.revisited /\ topMember.index + 2 < Len(topMember.choices)
       THEN "increment"
       ELSE IF ~topMember.revisited THEN "tryToPush"
       ELSE "pop"

\* which branch of the loop body the top frame selects
Branch ==
    LET topMember == top(blankStack)
    IN IF topMember.revisited /\ topMember.index + 1 < Len(topMember.choices)
       THEN "increment"
       ELSE IF ~topMember.revisited THEN "tryToPush"
       ELSE "pop"

InLoopBody ==
    /\ pc = "loop"
    /\ blankStack # <<>>
    /\ Len(blankStack) # fullStackSize

Increment ==
    /\ InLoopBody
    /\ Branch = "increment"
    /\ \E r \in {increment(diagnostic, St, subgridSize)} : Step("increment", r)
    /\ UNCHANGED <<program, caller, input, fullStackSize, result, vgrid, verdicts>>

TryToPush ==
    /\ InLoopBody
    /\ Branch = "tryToPush"
    /\ \E r \in {tryToPush(diagnostic, St, subgridSize)} : Step("tryToPush", r)
    /\ UNCHANGED <<program, caller, input, fullStackSize, result, vgrid, verdicts>>

Pop ==
    /\ InLoopBody
    /\ Branch = "pop"
    /\ \E r \in {pop(diagnostic, St)} : Step("pop", r)
    /\ UNCHANGED <<program, caller, input, fullStackSize, result, vgrid, verdicts>>

\* backtrack has returned: its locals are gone.  Simplified's main ends; the
\* diagnostic main displays the result and goes on to the user's grid after
\* the stored one.  main's grid is then dead (getGrid's result overwrites it
\* before anything reads it), so it is dropped here already.
ReturnToMain ==
    /\ pc = "returned"
    /\ pc' = IF diagnostic /\ caller = "stored" THEN "getGrid" ELSE "exit"
    /\ grid' = IF diagnostic /\ caller = "stored" THEN EmptyGrid ELSE grid
    /\ input' = EmptyGrid
    /\ blanksInProcess' = NoBlanks
    /\ recordsEachDigit' = NoRecord
    /\ blankStack' = NoStack
    /\ fullStackSize' = 0
    /\ result' = EmptyGrid
    /\ lastOp' = "none"
    /\ maxDepth' = 0
    /\ UNCHANGED <<program, caller, err, vgrid, verdicts>>

\* getGrid: gridLength rows of gridLength values read from the user
GetGrid ==
    /\ pc = "getGrid"
    /\ \E g \in UserGrids : grid' = g
    /\ caller' = "user"
    /\ pc' = "userDataFine"
    /\ UNCHANGED <<program, input, blanksInProcess, recordsEachDigit, blankStack,
                   fullStackSize, result, lastOp, maxDepth, err, vgrid, verdicts>>

\* main calling backtrack whatever userDataFine says
UserDataFineIgnored ==
    /\ pc = "userDataFine"
    /\ pc' = "backtrack"
    /\ lastOp' = lastOp
    /\ UNCHANGED <<program, caller, input, grid, blanksInProcess, recordsEachDigit,
                   blankStack, fullStackSize, result, maxDepth, err, vgrid, verdicts>>

\* if(userDataFine(grid)) display(backtrack(grid));
UserDataFine ==
    /\ pc = "userDataFine"
    /\ IF checkUserGrid(grid, gridSize, subgridSize)
       THEN pc' = "backtrack" /\ lastOp' = lastOp
       ELSE pc' = "exit" /\ lastOp' = "rejected"
    /\ UNCHANGED <<program, caller, input, grid, blanksInProcess, recordsEachDigit,
                   blankStack, fullStackSize, result, maxDepth, err, vgrid, verdicts>>

Next ==
    \/ CreateTestGrid
    \/ BacktrackStart
    \/ ReturnEmpty
    \/ ReturnSolved
    \/ Increment
    \/ TryToPush
    \/ Pop
    \/ ReturnToMain
    \/ GetGrid
    \/ UserDataFine

Spec == Init /\ [][Next]_vars

\* main runs to completion: the single thread always takes its next step
LiveSpec == Spec /\ WF_vars(Next)

(***************************************************************************)
(* Validator harness: checkUserGrid applied to one grid, which may have    *)
(* the wrong number of rows or one row of the wrong length.                *)
(***************************************************************************)
\* rows: number of rows; row: the row whose length is len (the others have
\* gridSize cells)
Shapes ==
    [rows : (gridSize - 1) .. (gridSize + 1),
     row  : {0, gridSize - 1},
     len  : (gridSize - 1) .. (gridSize + 1)]

\* base cut or padded with zeros to the shape sh
Reshape(base, sh) ==
    [i \in 0 .. sh.rows - 1 |->
        [j \in 0 .. (IF i = sh.row THEN sh.len ELSE gridSize) - 1 |->
            IF i < gridSize /\ j < gridSize THEN base[i][j] ELSE 0]]

ValidatorGrids ==
    {Reshape(GridOf(f), sh) :
        f \in {h \in [GivenCells -> UserValues] : NonZero(h) <= MaxEntries},
        sh \in Shapes}

InitValidate ==
    /\ program = "Diagnostic"
    /\ pc = "checkUserGrid"
    /\ caller = "user"
    /\ input = EmptyGrid
    /\ grid = EmptyGrid
    /\ blanksInProcess = NoBlanks
    /\ recordsEachDigit = NoRecord
    /\ blankStack = NoStack
    /\ fullStackSize = 0
    /\ result = EmptyGrid
    /\ lastOp = "none"
    /\ maxDepth = 0
    /\ err = "none"
    /\ vgrid \in ValidatorGrids
    /\ verdicts = <<>>

\* one call checkUserGrid(vgrid, gridSize, subgridSize); the grid is a const
\* reference
Validate ==
    /\ pc = "checkUserGrid"
    /\ verdicts = <<>>
    /\ verdicts' = Append(verdicts, checkUserGrid(vgrid, gridSize, subgridSize))
    /\ pc' = "checked"
    /\ UNCHANGED <<program, caller, input, grid, blanksInProcess, recordsEachDigit,
                   blankStack, fullStackSize, result, lastOp, maxDepth, err, vgrid>>

NextValidate == Validate

SpecValidate == InitValidate /\ [][NextValidate]_vars

(***************************************************************************)
(* The recursive variant (EPI_Simplified.cpp)                              *)
(***************************************************************************)
kEmptyEntry == 0

\* int region_size = sqrt(n): the double root truncated
sqrt(n) == CHOOSE r \in 0 .. n : r * r <= n /\ n < (r + 1) * (r + 1)

\* ValidToAddVal without the region scan
ValidToAddValNoRegion(partial_assignment, i, j, val) ==
    /\ \A k \in 0 .. size(partial_assignment) - 1 : val # partial_assignment[k][j]
    /\ \A k \in 0 .. size(partial_assignment) - 1 : val # partial_assignment[i][k]

\* the three scans of ValidToAddVal; a hit returns false
ValidToAddVal(partial_assignment, i, j, val) ==
    LET n == size(partial_assignment)
        region_size == sqrt(n)
        I == i \div region_size
        J == j \div region_size
    IN /\ \A k \in 0 .. n - 1 : val # partial_assignment[k][j]
       /\ \A k \in 0 .. n - 1 : val # partial_assignment[i][k]
       /\ \A a \in 0 .. region_size - 1 : \A b \in 0 .. region_size - 1 :
             val # partial_assignment[region_size * I + a][region_size * J + b]

\* SolvePartialSudoku returns [ok, grid]: its bool and *partial_assignment as
\* the call leaves it.  TryVal is its for loop from val on, AfterTry the loop
\* body after the recursive call returned q.
RECURSIVE SolvePartialSudoku(_, _, _)
RECURSIVE TryVal(_, _, _, _)
AfterTry(i, j, val, q) ==
    IF q.ok THEN q ELSE TryVal(i, j, q.grid, val + 1)

TryVal(i, j, partial_assignment, val) ==
    IF val <= size(partial_assignment)
    THEN IF ValidToAddVal(partial_assignment, i, j, val)
         THEN CHOOSE r \in {AfterTry(i, j, val, q) :
                               q \in {SolvePartialSudoku(i + 1, j, g) :
                                         g \in {[partial_assignment
                                                    EXCEPT ![i][j] = val]}}} : TRUE
         ELSE TryVal(i, j, partial_assignment, val + 1)
    ELSE [ok |-> FALSE, grid |-> [partial_assignment EXCEPT ![i][j] = kEmptyEntry]]

SolvePartialSudoku(i, j, partial_assignment) ==
    IF i = size(partial_assignment) /\ j + 1 = size(partial_assignment[0])
    THEN [ok |-> TRUE, grid |-> partial_assignment]
    ELSE LET i1 == IF i = size(partial_assignment) THEN 0 ELSE i
             j1 == IF i = size(partial_assignment) THEN j + 1 ELSE j
         IN IF partial_assignment[i1][j1] # kEmptyEntry
            THEN SolvePartialSudoku(i1 + 1, j1, partial_assignment)
            ELSE TryVal(i1, j1, partial_assignment, 1)

(***************************************************************************)
(* The rule of the puzzle, stated on the grid alone                        *)
(***************************************************************************)
Box(c) == <<c[1] \div subgridSize, c[2] \div subgridSize>>

Share(c1, c2) == c1[1] = c2[1] \/ c1[2] = c2[2] \/ Box(c1) = Box(c2)

At(g, c) == g[c[1]][c[2]]

\* no two distinct cells that share a row, a column or a subregion hold the
\* same non-zero value
Legal(g) ==
    \A c1 \in Cells : \A c2 \in Cells :
        (c1 # c2 /\ At(g, c1) # 0 /\ At(g, c1) = At(g, c2)) => ~Share(c1, c2)

Complete(g) == \A c \in Cells : At(g, c) \in Digits

IsSquare(g) ==
    /\ DOMAIN g = 0 .. gridSize - 1
    /\ \A i \in DOMAIN g : DOMAIN g[i] = 0 .. gridSize - 1

\* the rows a completed legal grid can have
RowPerms == {p \in [0 .. gridSize - 1 -> Digits] : \A a, b \in DOMAIN p : p[a] = p[b] => a = b}

\* legal grids made of the first k rows
RECURSIVE FirstRows(_)
FirstRows(k) ==
    IF k = 0 THEN {<<>>}
    ELSE {h \in {[i \in 0 .. k - 1 |-> IF i < k - 1 THEN part[i] ELSE p] :
                    part \in FirstRows(k - 1), p \in RowPerms} :
            \A i \in 0 .. k - 2 : \A j1, j2 \in 0 .. gridSize - 1 :
                h[i][j1] = h[k - 1][j2] =>
                    ~Share(<<i, j1>>, <<k - 1, j2>>)}

\* all completed legal grids
Solutions == FirstRows(gridSize)

\* the completed legal grids that agree with g on its non-zero cells
Completions(g) == {h \in Solutions : \A c \in Cells : At(g, c) # 0 => At(h, c) = At(g, c)}

(***************************************************************************)
(* Properties                                                              *)
(***************************************************************************)
\* backtrack is running on, or has just returned from, the grid input
Running == input # EmptyGrid

HasGiven(g) == \E c \in Cells : At(g, c) # 0

\* some frame of the stack sits on a later choice than its first
Advanced == \E k \in 1 .. Len(blankStack) : blankStack[k].index > 0

\* The engine states at the end of the push and increment steps inside the
\* loop iteration that is about to run (the iteration's last step ends in the
\* next state): increment(stack, record, grid) and the push after it, or the
\* push of tryToPush.
StepEnds ==
    IF ~InLoopBody THEN {}
    ELSE IF Branch = "increment"
    THEN UNION {{a} \cup (IF a.err = "none"
                          THEN {push(diagnostic, a, subgridSize).st} ELSE {}) :
                a \in {incrementTop(diagnostic, St)}}
    ELSE IF Branch = "tryToPush" THEN {push(diagnostic, St, subgridSize).st}
    ELSE {}

\* C1 (soundness): when backtrack returns a non-empty grid for an input that
\* satisfies the row/column/subregion rule, that grid is square, has no 0
\* cell, holds only digits 1..N, and satisfies the rule.
C1_Soundness ==
    (pc = "returned" /\ result # EmptyGrid /\ Legal(input))
        => (IsSquare(result) /\ Complete(result) /\ Legal(result))

\* a legal input with givens was solved, and the solution needed a frame to
\* be advanced past its first choice
C1_Witness ==
    /\ pc = "returned" /\ result # EmptyGrid
    /\ Legal(input) /\ HasGiven(input)
    /\ lastOp = "returnSolved" /\ Advanced

\* C2 (completeness): for a legal input with at least one legal completion
\* backtrack hits no error and returns one of the input's legal completions,
\* never the empty result; when the completion is unique it returns exactly
\* that grid.
C2_Completeness ==
    (Running /\ pc \in {"returned", "exit", "UB"}
             /\ Legal(input) /\ Completions(input) # {})
        => /\ err = "none" /\ pc = "returned"
           /\ result # EmptyGrid
           /\ result \in Completions(input)
           /\ Cardinality(Completions(input)) = 1 => Completions(input) = {result}

\* a legal input with blanks and exactly one completion has been solved
C2_Witness ==
    /\ pc = "returned" /\ Legal(input) /\ fullStackSize > 0
    /\ Cardinality(Completions(input)) = 1
    /\ Completions(input) = {result}

\* the all-zero grid has been solved
C2_WitnessAllZero ==
    /\ pc = "returned" /\ ~HasGiven(input) /\ result # EmptyGrid

\* C3 (unsolvable detection): for a legal input with at least one blank and
\* no legal completion backtrack hits no error and returns the empty vector
\* with an empty stack.
C3_Unsolvable ==
    (Running /\ pc \in {"returned", "exit", "UB"}
             /\ Legal(input) /\ ~Complete(input) /\ Completions(input) = {})
        => /\ err = "none" /\ pc = "returned"
           /\ result = EmptyGrid
           /\ blankStack = <<>>

\* a legal input without completion was given up after the search had gone
\* at least three frames deep
C3_Witness ==
    /\ pc = "returned" /\ result = EmptyGrid
    /\ Legal(input) /\ ~Complete(input) /\ Completions(input) = {}
    /\ maxDepth >= 3

\* C5 (givens preserved): while backtrack runs and when it has returned,
\* every cell that was non-zero in the input holds its input value, in the
\* grid at the end of every step and in the returned grid.
C5_GivensPreserved ==
    Running =>
        /\ IsSquare(grid)
        /\ \A c \in Cells : At(input, c) # 0 => At(grid, c) = At(input, c)
        /\ \A e \in StepEnds :
              \A c \in Cells : At(input, c) # 0 => At(e.grid, c) = At(input, c)
        /\ (pc = "returned" /\ result # EmptyGrid) =>
              \A c \in Cells : At(input, c) # 0 => At(result, c) = At(input, c)

\* a frame has just been popped in a run on a grid with givens
C5_Witness ==
    /\ pc = "loop" /\ HasGiven(input)
    /\ lastOp \in {"pop", "tryToPush:popped"}

\* C9 (grid legality): starting from a legal input, after the first push,
\* after every loop iteration and at the end of every push, increment and pop
\* inside an iteration, no two distinct non-zero cells that share a row,
\* column or subregion hold the same digit.
C9_GridLegal ==
    (Running /\ Legal(input) /\ pc \in {"loop", "returned"})
        => (Legal(grid) /\ \A e \in StepEnds : Legal(e.grid))

\* an increment has just committed the next choice and pushed a new frame,
\* on a legal input with givens
C9_Witness ==
    /\ pc = "loop" /\ Legal(input) /\ HasGiven(input)
    /\ lastOp = "increment:pushed"

Listed(column, c) == \E k \in 1 .. Len(column) : column[k] = c

\* record lists, for every digit, exactly the squares of g that hold it, once
Indexes(record, g) ==
    \A d \in Digits :
        /\ d \in DOMAIN record
        /\ \A c \in Cells : Listed(record[d], c) <=> At(g, c) = d
        /\ \A k1, k2 \in 1 .. Len(record[d]) : record[d][k1] = record[d][k2] => k1 = k2

\* C10 (occurrence index): after occurrences(grid) and the first push, after
\* every loop iteration and at the end of every push, increment and pop inside
\* an iteration, for every digit d in 1..N a coordinate is listed under
\* record[d] exactly when the grid holds d there, and no coordinate is listed
\* twice.
C10_IndexConsistent ==
    (Running /\ pc \in {"loop", "returned"}) =>
        /\ Indexes(recordsEachDigit, grid)
        /\ \A e \in StepEnds : Indexes(e.record, e.grid)

\* a frame was advanced and later popped: the index has seen an increment
\* and a removal
C10_Witness ==
    /\ pc = "loop" /\ lastOp = "pop" /\ HasGiven(input)

\* C4 (termination): once backtrack has been entered its main loop is left
\* by a return (of the grid or of the empty vector), whatever the input.
C4_Termination == (pc \in {"backtrack", "loop"}) ~> (pc = "returned")

\* the loop has been left with the empty result after a search at least
\* three frames deep
C4_Witness ==
    /\ pc = "returned" /\ lastOp = "returnEmpty" /\ maxDepth >= 3

\* what the validator is meant to accept: gridSize rows of gridSize values
\* in 0..gridSize that satisfy the rule
WellFormed(g) ==
    /\ DOMAIN g = 0 .. gridSize - 1
    /\ \A i \in DOMAIN g :
          /\ DOMAIN g[i] = 0 .. gridSize - 1
          /\ \A j \in DOMAIN g[i] : g[i][j] \in 0 .. gridSize

\* C6 (validator): checkUserGrid(grid, N, s) with N = s * s is true exactly
\* when the grid has N rows of N values, every value is in 0..N, and no two
\* equal non-zero values share a row, a column or a subregion.
C6_Validator ==
    pc = "checked" => (verdicts[1] <=> (WellFormed(vgrid) /\ Legal(vgrid)))

\* a well-formed grid with a non-zero value repeated in one row was rejected
C6_Witness ==
    /\ pc = "checked" /\ verdicts = <<FALSE>> /\ WellFormed(vgrid)
    /\ \E i, j1, j2 \in 0 .. gridSize - 1 :
          j1 # j2 /\ vgrid[i][j1] # 0 /\ vgrid[i][j1] = vgrid[i][j2]

\* a well-formed legal grid with entries was accepted
C6_WitnessAccepted ==
    /\ pc = "checked" /\ verdicts = <<TRUE>> /\ HasGiven(vgrid)

\* C7 (malformed input never reaches the search): in the diagnostic program
\* backtrack only ever runs on a grid checkUserGrid accepted; when main has
\* ended holding a grid the check rejects, that is because the stored grid
\* raised the runtime_error or userDataFine returned false, and no search
\* step ran on it.
C7_Gate ==
    diagnostic =>
        /\ pc = "backtrack" => checkUserGrid(grid, gridSize, subgridSize)
        /\ Running => checkUserGrid(input, gridSize, subgridSize)
        /\ (pc = "exit" /\ ~checkUserGrid(grid, gridSize, subgridSize)) =>
              /\ \/ caller = "stored"
                      /\ err = "runtime_error: Grid seems to have been mistyped"
                      /\ lastOp = "none"
                 \/ caller = "user" /\ err = "none" /\ lastOp = "rejected"
              /\ ~Running
              /\ blankStack = NoStack
              /\ maxDepth = 0

\* the user's grid was rejected by userDataFine
C7_Witness ==
    /\ diagnostic /\ pc = "exit" /\ caller = "user" /\ lastOp = "rejected"
    /\ ~checkUserGrid(grid, gridSize, subgridSize)

\* the stored grid was rejected with the runtime_error
C7_WitnessStored ==
    /\ diagnostic /\ pc = "exit" /\ caller = "stored" /\ err # "none"

\* the number of blank cells of a grid, counted on the grid alone
BlankCount(g) == Cardinality({c \in Cells : At(g, c) = 0})

\* C11 (conservation): after the first push, after every loop iteration and
\* at the end of every push and pop inside an iteration, the stack size plus
\* the size of blanksInProcess equals the number of blank cells of the input
\* grid, so the stack never holds more frames than the input had blanks.
C11_Conservation ==
    (Running /\ pc \in {"loop", "returned"}) =>
        /\ fullStackSize = BlankCount(input)
        /\ Len(blankStack) + Len(blanksInProcess) = BlankCount(input)
        /\ Len(blankStack) <= BlankCount(input)
        /\ \A e \in StepEnds :
              e.err = "none" => Len(e.stack) + Len(e.blanks) = BlankCount(input)

\* a failed push has just been answered by a pop that left frames on the
\* stack, in a run on a grid with givens
C11_Witness ==
    /\ pc = "loop" /\ lastOp = "tryToPush:popped" /\ HasGiven(input)
    /\ Len(blankStack) >= 2 /\ Len(blanksInProcess) >= 2

\* a push that returned false without an error
FailedPushes(st) ==
    {q \in {push(diagnostic, st, subgridSize)} : ~q.ok /\ q.st.err = "none"}

\* The engine states in which the loop iteration that is about to run executes
\* pop: the current state in the pop branch, the state a failed push leaves
\* in tryToPush, and the same after the increment of the increment branch.
PopPoints ==
    IF ~InLoopBody THEN {}
    ELSE IF Branch = "pop" THEN {St}
    ELSE IF Branch = "tryToPush" THEN {q.st : q \in FailedPushes(St)}
    ELSE UNION {IF a.err = "none" THEN {q.st : q \in FailedPushes(a)} ELSE {} :
                a \in {incrementTop(diagnostic, St)}}

\* C12 (pop only at the last choice): whenever pop is executed, from the main
\* loop or after a failed push (also the one inside increment), the stack is
\* not empty, the top frame's index is |choices| - 1, and choices.back(), the
\* digit pop removes from the index, is the digit the grid holds at the
\* frame's coordinate.
C12_PopAtLastChoice ==
    (Running /\ pc = "loop") =>
        \A e \in PopPoints :
            /\ e.stack # <<>>
            /\ top(e.stack).choices # <<>>
            /\ top(e.stack).index = Len(top(e.stack).choices) - 1
            /\ At(e.grid, top(e.stack).coordinates)
                  = top(e.stack).choices[Len(top(e.stack).choices)]

\* a failed push has just been answered by a pop, and the frame it exposed,
\* which has several choices and sits on the last, is about to be popped
\* from the main loop
C12_Witness ==
    /\ pc = "loop" /\ lastOp = "tryToPush:popped"
    /\ InLoopBody /\ Branch = "pop" /\ PopPoints # {}
    /\ Len(top(blankStack).choices) >= 2

\* what the loop iteration about to run does to the engine state, in the
\* variant with (diag) or without the runtime_error checks
StepOf(diag) ==
    IF Branch = "increment" THEN increment(diag, St, subgridSize)
    ELSE IF Branch = "tryToPush" THEN tryToPush(diag, St, subgridSize)
    ELSE pop(diag, St)

\* the first push of backtrack on grid, in either variant
FirstPushOf(diag) ==
    push(diag, [stack |-> NoStack, blanks |-> blankSquares(grid),
                record |-> occurrences(grid), grid |-> grid, err |-> "none"],
         subgridSize)

\* C13 (no internal check fires): on every input backtrack is run on (all
\* format-valid, legal or not), no runtime_error of push, pop or increment
\* fires and the minimal variant meets no undefined behaviour; at every
\* state the step of the diagnostic variant and the step of the minimal
\* variant produce the same stack, pool, index and grid, so both variants
\* pass through the same states and return the same result.
C13_NoInternalError ==
    /\ Running => (err = "none" /\ pc # "UB")
    /\ (pc = "backtrack" /\ blankSquares(grid) # <<>>) =>
          \A p \in {FirstPushOf(TRUE)} :
              p.st.err = "none" /\ p = FirstPushOf(FALSE)
    /\ (pc = "loop" /\ InLoopBody) =>
          \A r \in {StepOf(TRUE)} : r.err = "none" /\ r = StepOf(FALSE)

\* the minimal variant, running on an input that breaks the rule, has just
\* advanced a frame and pushed the next one without any check having fired
C13_Witness ==
    /\ program = "Simplified" /\ pc = "loop" /\ lastOp = "increment:pushed"
    /\ ~Legal(input) /\ err = "none"

\* the cells in which two grids differ
ChangedCells(g, h) == {c \in Cells : At(g, c) # At(h, c)}

\* C14 (at most one cell changes per iteration): the grid at the end of an
\* iteration of the main loop differs from the grid at its start in at most
\* one cell.
C14_OneCellPerIteration ==
    [][(pc = "loop" /\ InLoopBody /\ pc' = "loop")
          => Cardinality(ChangedCells(grid, grid')) <= 1]_vars

\* C15 (the push inside increment succeeds): whenever the main loop takes the
\* increment branch, the push that follows the advance of the cursor returns
\* true, the iteration ends right after it with the stack one frame deeper
\* (never empty), and neither the pop of tryToPush nor the recovery push
\* runs.
C15_IncrementPushes ==
    /\ lastOp \notin {"increment:popped", "increment:recovered", "increment:error"}
    /\ (pc = "loop" /\ InLoopBody /\ Branch = "increment") =>
          \A a \in {incrementTop(diagnostic, St)} :
              /\ a.err = "none"
              /\ \A p \in {push(diagnostic, a, subgridSize)} :
                    /\ p.ok
                    /\ Len(p.st.stack) = Len(blankStack) + 1
                    /\ increment(diagnostic, St, subgridSize) = p.st

\* an increment has just moved a frame to its third choice or beyond and
\* pushed a fresh frame on top of it
C15_Witness ==
    /\ pc = "loop" /\ lastOp = "increment:pushed" /\ Len(blankStack) >= 2
    /\ blankStack[Len(blankStack) - 1].index >= 2
    /\ top(blankStack).index = 0 /\ ~top(blankStack).revisited

\* The engine states on which the step about to run calls push (and with it
\* min): the start of backtrack, the tryToPush branch, and the increment
\* branch after its increment(stack, record, grid).
PushCalls ==
    IF pc = "backtrack" /\ blankSquares(grid) # <<>>
    THEN {[stack |-> NoStack, blanks |-> blankSquares(grid),
           record |-> occurrences(grid), grid |-> grid, err |-> "none"]}
    ELSE IF pc = "loop" /\ InLoopBody
    THEN IF Branch = "tryToPush" THEN {St}
         ELSE IF Branch = "increment"
         THEN {a \in {incrementTop(diagnostic, St)} : a.err = "none"}
         ELSE {}
    ELSE {}

\* the digits legal at square c under the index: those no other square that
\* shares a row, a column or a subregion with c is listed under
LegalDigits(record, c) ==
    {d \in Digits : \A k \in 1 .. Len(record[d]) :
                       record[d][k] = c \/ ~Share(c, record[d][k])}

OptionCount(record, c) == Cardinality(LegalDigits(record, c))

\* the first position of the pool, in iteration order, whose blank has the
\* fewest legal digits of all blanks of the pool
FirstMin(blanks, record) ==
    CHOOSE i \in 1 .. Len(blanks) :
        /\ \A j \in 1 .. Len(blanks) :
              OptionCount(record, blanks[i]) <= OptionCount(record, blanks[j])
        /\ \A j \in 1 .. i - 1 :
              OptionCount(record, blanks[j]) # OptionCount(record, blanks[i])

\* C16 (MRV selection): on every non-empty pool min is called on, min
\* returns the iterator to a blank whose number of legal digits under the
\* index is the minimum over the pool, and the first such blank in the
\* pool's order; the counting shortcuts do not change the blank returned.
C16_MinSelection ==
    \A e \in PushCalls :
        /\ e.blanks # <<>>
        /\ min(diagnostic, e.grid, e.blanks, e.record, subgridSize).currentMin
              = FirstMin(e.blanks, e.record)

\* min is about to be called on a pool in which the fewest options are
\* shared by two blanks, neither of them the first of the pool, and some
\* blank has more options than that
C16_Witness ==
    /\ pc = "loop" /\ InLoopBody /\ Branch = "tryToPush"
    /\ FirstMin(blanksInProcess, recordsEachDigit) > 1
    /\ \E j \in FirstMin(blanksInProcess, recordsEachDigit) + 1 .. Len(blanksInProcess) :
          OptionCount(recordsEachDigit, blanksInProcess[j])
            = OptionCount(recordsEachDigit,
                          blanksInProcess[FirstMin(blanksInProcess, recordsEachDigit)])
    /\ OptionCount(recordsEachDigit, blanksInProcess[1])
          > OptionCount(recordsEachDigit,
                        blanksInProcess[FirstMin(blanksInProcess, recordsEachDigit)])

\* C17 as claimed: nonEmpty of min is true exactly when at least one blank of
\* the pool has at least one legal digit.
C17_NonEmptyIfSomeBlankHasOption ==
    \A e \in PushCalls :
        min(diagnostic, e.grid, e.blanks, e.record, subgridSize).nonEmpty
            <=> \E i \in 1 .. Len(e.blanks) : OptionCount(e.record, e.blanks[i]) >= 1

\* C17 (amended): nonEmpty of min is true exactly when every blank of the
\* pool has at least one legal digit, which is exactly when the blank min
\* returns has one; it is false exactly when some blank of the pool has no
\* legal digit.
C17_NonEmptyIffEveryBlankHasOption ==
    \A e \in PushCalls :
        \A m \in {min(diagnostic, e.grid, e.blanks, e.record, subgridSize)} :
            /\ m.nonEmpty <=> \A i \in 1 .. Len(e.blanks) :
                                 OptionCount(e.record, e.blanks[i]) >= 1
            /\ m.nonEmpty <=> OptionCount(e.record, e.blanks[m.currentMin]) >= 1

\* min is about to be called on a pool in which one blank has no legal digit
\* while the first blank of the pool has one
C17_Witness ==
    /\ pc = "loop" /\ InLoopBody /\ Branch = "tryToPush"
    /\ OptionCount(recordsEachDigit, blanksInProcess[1]) >= 1
    /\ \E i \in 2 .. Len(blanksInProcess) :
          OptionCount(recordsEachDigit, blanksInProcess[i]) = 0

\* the coordinates listed under each key of the index
CoordinateSets(record) ==
    [d \in DOMAIN record |-> {record[d][k] : k \in 1 .. Len(record[d])}]

\* C18 (a failed push changes nothing): on every non-empty pool push is
\* called on, push returns false exactly when some blank of the pool has no
\* legal digit, and then the stack, the grid, the coordinate sets of the
\* index and the pool (contents and order) are as before the call; after a
\* failed first push of backtrack the containers are the ones built from
\* the input.
C18_FailedPush ==
    /\ \A e \in PushCalls :
          \A p \in {push(diagnostic, e, subgridSize)} :
              /\ p.st.err = "none"
              /\ ~p.ok <=> \E i \in 1 .. Len(e.blanks) :
                              OptionCount(e.record, e.blanks[i]) = 0
              /\ ~p.ok => /\ p.st.stack = e.stack
                          /\ p.st.grid = e.grid
                          /\ p.st.blanks = e.blanks
                          /\ CoordinateSets(p.st.record) = CoordinateSets(e.record)
    /\ (pc = "loop" /\ lastOp = "start:failed") =>
          /\ grid = input /\ blankStack = <<>>
          /\ blanksInProcess = blankSquares(input)
          /\ CoordinateSets(recordsEachDigit) = CoordinateSets(occurrences(input))

\* the first push of backtrack has failed on a pool whose first blank, the
\* one options() probed, has legal digits
C18_Witness ==
    /\ pc = "loop" /\ lastOp = "start:failed" /\ HasGiven(input)
    /\ OptionCount(recordsEachDigit, blanksInProcess[1]) >= 1

\* the elements of a set of digits in ascending order
Ascending(S) ==
    CHOOSE q \in [1 .. Cardinality(S) -> S] :
        \A a, b \in 1 .. Cardinality(S) : a < b => q[a] < q[b]

\* a sequence without its element at position k
Without(q, k) == [i \in 1 .. Len(q) - 1 |-> IF i < k THEN q[i] ELSE q[i + 1]]

\* what a successful push on the engine state e has to leave behind
PushedFrom(e) ==
    LET k == FirstMin(e.blanks, e.record)
        coord == e.blanks[k]
        choices == Ascending(LegalDigits(e.record, coord))
    IN [stack  |-> Append(e.stack, [coordinates |-> coord, choices |-> choices,
                                    index |-> 0, revisited |-> FALSE]),
        blanks |-> Without(e.blanks, k),
        record |-> [e.record EXCEPT ![choices[1]] = Append(@, coord)],
        grid   |-> [i \in 0 .. gridSize - 1 |-> [j \in 0 .. gridSize - 1 |->
                       IF <<i, j>> = coord THEN choices[1] ELSE e.grid[i][j]]],
        err    |-> "none"]

\* C19 (effect of a successful push): whenever push returns true, the new
\* top frame holds the coordinate min chose, the ascending list of all digits
\* legal there, index 0 and revisited = false; the grid holds choices[0] at
\* the coordinate, the coordinate is appended to record[choices[0]] and
\* removed from the pool, and nothing else changes.  After every step that
\* ended with a push the top frame is such a frame.
C19_PushEffect ==
    /\ \A e \in PushCalls :
          \A p \in {push(diagnostic, e, subgridSize)} : p.ok => p.st = PushedFrom(e)
    /\ (pc = "loop" /\ lastOp \in {"start:pushed", "tryToPush:pushed", "increment:pushed"})
          => /\ blankStack # <<>>
             /\ top(blankStack).index = 0 /\ ~top(blankStack).revisited
             /\ At(grid, top(blankStack).coordinates) = top(blankStack).choices[1]
             /\ recordsEachDigit[top(blankStack).choices[1]]
                    [Len(recordsEachDigit[top(blankStack).choices[1]])]
                  = top(blankStack).coordinates
             /\ ~Listed(blanksInProcess, top(blankStack).coordinates)

\* a push has just put a frame with several choices on a stack of at least
\* two frames, for a square that was not the first of the pool
C19_Witness ==
    /\ pc = "loop" /\ lastOp = "tryToPush:pushed" /\ Len(blankStack) >= 3
    /\ Len(top(blankStack).choices) >= 2
    /\ \E i \in 1 .. Len(blanksInProcess) :
          blanksInProcess[i][1] < top(blankStack).coordinates[1]

\* C20 (effect of pop): on every engine state on which a step pops, pop
\* removes the top frame, sets the grid cell of its coordinate to 0, appends
\* the coordinate to the end of the pool, removes it from the index entry of
\* the frame's current digit, marks the newly exposed top frame revisited,
\* and leaves the coordinate, choices and index of every other frame, the
\* revisited flag of the frames below the exposed one and every other grid
\* cell unchanged.  After every step that ended with a pop the pool ends
\* with a blank square and a non-empty stack has a revisited top.
C20_PopEffect ==
    /\ \A e \in PopPoints :
          \A q \in {pop(diagnostic, e)} :
             LET f == top(e.stack)
                 n == Len(e.stack)
                 d == f.choices[f.index + 1]
             IN /\ q.err = "none"
                /\ Len(q.stack) = n - 1
                /\ \A i \in 1 .. n - 1 :
                      /\ q.stack[i].coordinates = e.stack[i].coordinates
                      /\ q.stack[i].choices = e.stack[i].choices
                      /\ q.stack[i].index = e.stack[i].index
                      /\ q.stack[i].revisited = (i = n - 1 \/ e.stack[i].revisited)
                /\ ChangedCells(e.grid, q.grid) = {f.coordinates}
                /\ At(q.grid, f.coordinates) = 0
                /\ q.blanks = Append(e.blanks, f.coordinates)
                /\ \A k \in DOMAIN e.record :
                      /\ k # d => q.record[k] = e.record[k]
                      /\ k = d => /\ Len(q.record[k]) = Len(e.record[k]) - 1
                                  /\ ~Listed(q.record[k], f.coordinates)
                                  /\ \A c \in Cells : c # f.coordinates =>
                                        (Listed(q.record[k], c) <=> Listed(e.record[k], c))
    /\ (pc = "loop" /\ lastOp \in {"pop", "tryToPush:popped", "increment:popped"})
          => /\ blanksInProcess # <<>>
             /\ At(grid, blanksInProcess[Len(blanksInProcess)]) = 0
             /\ blankStack # <<>> => top(blankStack).revisited

\* a pop has just followed another pop and left at least two frames and at
\* least two pooled squares
C20_Witness ==
    /\ pc = "loop" /\ lastOp = "pop" /\ HasGiven(input)
    /\ Len(blankStack) >= 2 /\ Len(blanksInProcess) >= 2

\* the digits that were legal at the coordinate of frame k when it was
\* pushed: those held by no cell that shares a row, column or subregion with
\* it, the squares of the frames from k upwards being blank then
LegalWhenPushed(stack, g, k) ==
    LET later == {stack[n].coordinates : n \in k .. Len(stack)}
    IN {d \in Digits :
          \A c \in Cells \ later :
             At(g, c) = d => ~Share(stack[k].coordinates, c)}

\* every frame holds the choices it was pushed with, not empty, a cursor
\* inside them, and the grid holds the choice under the cursor
FramesInOrder(stack, g) ==
    \A k \in 1 .. Len(stack) :
       /\ stack[k].choices # <<>>
       /\ stack[k].choices = Ascending(LegalWhenPushed(stack, g, k))
       /\ 0 <= stack[k].index /\ stack[k].index < Len(stack[k].choices)
       /\ At(g, stack[k].coordinates) = stack[k].choices[stack[k].index + 1]

\* C21 (frame cursor invariant): at the end of every step (every loop
\* iteration, and the increment and the push inside an iteration), every
\* frame on the stack has non-empty choices equal to the ones it was pushed
\* with, 0 <= index < |choices|, and grid[frame.coordinates] = choices[index].
C21_FrameCursor ==
    /\ (Running /\ pc \in {"loop", "returned"}) => FramesInOrder(blankStack, grid)
    /\ \A e \in StepEnds : e.err = "none" => FramesInOrder(e.stack, e.grid)

\* an increment step has just ended: below the fresh top frame is a frame
\* whose cursor is past its first choice, and deeper frames exist
C21_Witness ==
    /\ pc = "loop" /\ lastOp = "increment:pushed" /\ Len(blankStack) >= 3
    /\ blankStack[Len(blankStack) - 1].index >= 1
    /\ Len(blankStack[Len(blankStack) - 1].choices) >= 2

\* pool and stack split the blank squares of the input grid g0: the pooled
\* squares are blank, the stacked ones filled, no square occurs twice
Partition(stack, blanks, g, g0) ==
    /\ \A i \in 1 .. Len(blanks) : At(g, blanks[i]) = 0
    /\ \A k \in 1 .. Len(stack) : At(g, stack[k].coordinates) # 0
    /\ \A i, j \in 1 .. Len(blanks) : blanks[i] = blanks[j] => i = j
    /\ \A k, n \in 1 .. Len(stack) :
          stack[k].coordinates = stack[n].coordinates => k = n
    /\ \A i \in 1 .. Len(blanks) : \A k \in 1 .. Len(stack) :
          blanks[i] # stack[k].coordinates
    /\ {blanks[i] : i \in 1 .. Len(blanks)}
          \cup {stack[k].coordinates : k \in 1 .. Len(stack)}
        = {c \in Cells : At(g0, c) = 0}

\* C22 (pool/stack partition): at the end of every step, every coordinate in
\* the pool holds 0 in the grid, every coordinate on the stack holds a
\* non-zero digit, no coordinate occurs twice in the pool or on the stack or
\* in both, and pool and stack together hold exactly the cells that were
\* blank in the input grid.
C22_Partition ==
    /\ (Running /\ pc \in {"loop", "returned"})
          => Partition(blankStack, blanksInProcess, grid, input)
    /\ \A e \in StepEnds : e.err = "none" => Partition(e.stack, e.blanks, e.grid, input)

\* squares have gone to the stack and come back: the pool is no longer in
\* scan order, and both pool and stack hold several squares
C22_Witness ==
    /\ pc = "loop" /\ HasGiven(input)
    /\ Len(blankStack) >= 2 /\ Len(blanksInProcess) >= 3
    /\ \E i \in 1 .. Len(blanksInProcess) - 1 :
          \/ blanksInProcess[i][1] > blanksInProcess[i + 1][1]
          \/ /\ blanksInProcess[i][1] = blanksInProcess[i + 1][1]
             /\ blanksInProcess[i][2] > blanksInProcess[i + 1][2]

\* the indexed check and the naive scan give the same answer for every blank
\* square of g and every digit
ChecksAgree(record, g) ==
    \A c \in Cells : \A d \in Digits :
       At(g, c) = 0 =>
          /\ consistent(d, c, g, record, subgridSize) = ValidToAddVal(g, c[1], c[2], d)
          /\ consistent(d, c, g, record, subgridSize)
                = (\A c2 \in Cells : At(g, c2) = d => ~Share(c, c2))

\* C23 (indexed check equals naive scan): whenever the occurrence index is
\* consistent with the grid (after occurrences(grid) and every push,
\* increment and pop), for every blank coordinate and every digit 1..N,
\* consistent(digit, coord, grid, record) is true exactly when no cell in
\* the coordinate's row, column or subregion holds the digit, which is what
\* the ValidToAddVal scan of the recursive variant returns.
C23_IndexedEqualsScan ==
    /\ (Running /\ pc \in {"loop", "returned"} /\ Indexes(recordsEachDigit, grid))
          => ChecksAgree(recordsEachDigit, grid)
    /\ \A e \in StepEnds : Indexes(e.record, e.grid) => ChecksAgree(e.record, e.grid)

\* the index is consistent with a grid in which a digit is ruled out at a
\* blank square by its subregion alone, another by its row alone, and a third
\* digit is allowed there
C23_Witness ==
    /\ pc = "loop" /\ Indexes(recordsEachDigit, grid)
    /\ \E c \in Cells :
          /\ At(grid, c) = 0
          /\ \E d \in Digits :
                /\ ~consistent(d, c, grid, recordsEachDigit, subgridSize)
                /\ \A c2 \in Cells : (At(grid, c2) = d /\ Share(c, c2)) =>
                      (c2[1] # c[1] /\ c2[2] # c[2])
          /\ \E d \in Digits :
                /\ ~consistent(d, c, grid, recordsEachDigit, subgridSize)
                /\ \A c2 \in Cells : (At(grid, c2) = d /\ Share(c, c2)) =>
                      (c2[1] = c[1] /\ Box(c2) # Box(c))
          /\ \E d \in Digits : consistent(d, c, grid, recordsEachDigit, subgridSize)

\* C24 (options): on every engine state on which push or min may call it and
\* for every blank coordinate of the pool, options returns, in ascending order
\* and without repetition, exactly the digits d in 1..N for which
\* consistent(d, coord) holds, and the grid it leaves has 0 at the coordinate
\* again and every other cell unchanged.  (options hands back no index: the
\* coordinate lists are the caller's, which it only reads.)
C24_Options ==
    \A e \in PushCalls :
       \A i \in 1 .. Len(e.blanks) :
          \A o \in {options(diagnostic, e.blanks[i], e.grid, e.record, subgridSize)} :
             /\ \A a, b \in 1 .. Len(o.result) : a < b => o.result[a] < o.result[b]
             /\ {o.result[k] : k \in 1 .. Len(o.result)}
                  = {d \in Digits :
                        consistent(d, e.blanks[i], e.grid, e.record, subgridSize)}
             /\ At(o.grid, e.blanks[i]) = 0
             /\ ChangedCells(e.grid, o.grid) = {}

\* push is about to call options on a pool holding a square with exactly two
\* legal digits that are not neighbours, a square with none excluded and a
\* square with a single legal digit
C24_Witness ==
    /\ pc = "loop" /\ InLoopBody /\ Branch = "tryToPush"
    /\ \E i \in 1 .. Len(blanksInProcess) :
          \E o \in {options(diagnostic, blanksInProcess[i], grid, recordsEachDigit,
                             subgridSize)} :
             Len(o.result) = 2 /\ o.result[2] - o.result[1] >= 2
    /\ \E i \in 1 .. Len(blanksInProcess) :
          Len(options(diagnostic, blanksInProcess[i], grid, recordsEachDigit,
                      subgridSize).result) = 1

\* C25 (failed search restores the caller's grid): whenever backtrack returns
\* the empty result, the grid it was passed by reference is cell for cell the
\* input grid, the pool holds exactly the blank squares of the input, each
\* once, and the index lists exactly the occurrences of the input grid.
C25_FailedSearchRestores ==
    (Running /\ pc = "returned" /\ result = EmptyGrid) =>
        /\ grid = input
        /\ {blanksInProcess[i] : i \in 1 .. Len(blanksInProcess)}
             = {c \in Cells : At(input, c) = 0}
        /\ Len(blanksInProcess) = BlankCount(input)
        /\ blankStack = <<>>
        /\ Indexes(recordsEachDigit, input)
        /\ \A d \in Digits : recordsEachDigit[d] = occurrences(input)[d]

\* the empty result has been returned after a search that went at least
\* three frames deep and left the pool in another order than it started in
C25_Witness ==
    /\ pc = "returned" /\ result = EmptyGrid /\ Running
    /\ maxDepth >= 3 /\ HasGiven(input)
    /\ blanksInProcess # blankSquares(input)

\* C26 (recursive and explicit-stack solvers agree): for every input grid
\* that satisfies the rule, backtrack returns a non-empty grid exactly when
\* SolvePartialSudoku(0, 0, grid) returns true, and when the input has a
\* unique completion the grid backtrack returns is the grid the recursive
\* solver leaves in *partial_assignment.
C26_SolversAgree ==
    (Running /\ pc = "returned" /\ Legal(input)) =>
        \A r \in {SolvePartialSudoku(0, 0, input)} :
           /\ (result # EmptyGrid) = r.ok
           /\ Cardinality(Completions(input)) = 1 => r.grid = result

\* backtrack has returned the solution of a legal input with at least twelve
\* blanks and a unique completion, on which the recursive solver has to undo
\* its first assignment (1 is valid at the first square but not its solution)
C26_Witness ==
    /\ pc = "returned" /\ Legal(input) /\ result # EmptyGrid
    /\ Cardinality(Completions(input)) = 1
    /\ BlankCount(input) >= 12
    /\ At(input, <<0, 0>>) = kEmptyEntry
    /\ ValidToAddVal(input, 0, 0, 1)
    /\ At(result, <<0, 0>>) # 1

\* the smaller of two integers
Smaller(a, b) == IF a < b THEN a ELSE b

\* of the first p digits, those legal at square c under the index
Successes(record, c, p) == Cardinality({d \in LegalDigits(record, c) : d <= p})

\* C27 as claimed (probe bound in the cell selector): for every blank after
\* the first one scanned by min(), the number of calls of consistent(digit,
\* coord) made for that blank is at most min(threshold, N), threshold being
\* the best option count when the blank is examined.
C27_ProbesWithinThreshold ==
    \A e \in PushCalls :
       \A m \in {min(diagnostic, e.grid, e.blanks, e.record, subgridSize)} :
          \A k \in 2 .. Len(m.probes) :
             m.probes[k] <= Smaller(m.thresholds[k], gridSize)

\* C27 amended (success bound in the cell selector): for every blank after
\* the first one scanned by min(), the number of probes that succeed is at
\* most min(threshold, N) and the number of probes is at most N; the scan of
\* a blank stops before N probes only when threshold of them have succeeded.
C27_SuccessesWithinThreshold ==
    \A e \in PushCalls :
       \A m \in {min(diagnostic, e.grid, e.blanks, e.record, subgridSize)} :
          \A k \in 2 .. Len(m.probes) :
             /\ m.probes[k] <= gridSize
             /\ Successes(e.record, e.blanks[k], m.probes[k])
                   <= Smaller(m.thresholds[k], gridSize)
             /\ m.probes[k] < gridSize =>
                   Successes(e.record, e.blanks[k], m.probes[k]) = m.thresholds[k]

\* push is about to call min on a pool in which a later blank is probed more
\* often than the threshold it is examined under, and another later blank is
\* dropped before all N digits have been probed
C27_Witness ==
    /\ pc = "loop" /\ InLoopBody /\ Branch = "tryToPush"
    /\ \E m \in {min(diagnostic, grid, blanksInProcess, recordsEachDigit, subgridSize)} :
          /\ \E k \in 2 .. Len(m.probes) : m.probes[k] > m.thresholds[k]
          /\ \E k \in 2 .. Len(m.probes) : m.probes[k] < gridSize

\* C28 (input without blanks): when the input grid contains no 0 cell,
\* backtrack returns that grid unchanged straight from its start (no push,
\* pop or increment runs, the loop is never entered, nothing fails) and
\* whether or not the grid satisfies the row/column/subregion rule.
C28_NoBlanks ==
    (Running /\ BlankCount(input) = 0) =>
        /\ err = "none" /\ pc \notin {"UB", "loop"}
        /\ pc = "returned" =>
              /\ result = input /\ grid = input
              /\ lastOp = "start:noBlanks"
              /\ blankStack = <<>> /\ blanksInProcess = <<>>
              /\ recordsEachDigit = occurrences(input)

\* backtrack has returned a full grid that breaks the rule
C28_Witness ==
    /\ pc = "returned" /\ Running /\ BlankCount(input) = 0
    /\ ~Legal(input) /\ result = input

====
